---- MODULE Spec2Model ----
(***************************************************************************)
(* Shared-mask dropout, the Evoformer block, the Evoformer stack and the   *)
(* invariant point attention of openfold-v30-NVIDIA, with the              *)
(* dynamic-axial-parallelism (DAP) group the stack and the block run       *)
(* under.                                                                  *)
(*                                                                         *)
(* Tensors are rank 4, [batch, N_seq, N_res, c], as in the docstrings of   *)
(* the block and the stack.  A tensor is a record of its shape and of a    *)
(* function from index 4-tuples (1-based) to integers.  Probabilities are  *)
(* exact rationals [num, den], so that the scale 1/(1-p) is an integer.    *)
(***************************************************************************)
EXTENDS Integers, Sequences, FiniteSets, TLC

\* Number of workers of the parallel group.
DapSize == 2
\* Largest entry of an input tensor.
MaxVal == 1
\* Largest num_blocks of a stack.
MaxBlocks == 2
\* Largest number of forward calls made on one dropout module and one pair
\* of tensors.
MaxCalls == 2

\* The element of a singleton: Only({e(x) : x \in {v}}) is e(v) with v
\* computed once.
Only(S) == CHOOSE x \in S : TRUE

\* An optional value: None, or Some(v).
None == <<>>
Some(v) == <<v>>
Error(name) == [error |-> name]
IsError(r) == "error" \in DOMAIN r
Workers == 0 .. (DapSize - 1)

(***************************************************************************)
(* State                                                                   *)
(***************************************************************************)
\* One dropout module and one forward call of it by every worker.
VARIABLES
    dphase,     \* "new", "ready" (constructed), "failed" (the constructor raised)
    dcfg,       \* the class, the constructor arguments, the mode and the call site
    dself,      \* the constructed module, or None
    dx, dy,     \* x and add_output_to, as the full (non-sharded) tensors
    drng,       \* the stream the group's generators produce, once one has drawn
    dres        \* per worker: None, or the mask combined and the tensor returned

dvars == <<dphase, dcfg, dself, dx, dy, drng, dres>>

\* One EvoformerStack.forward call by every worker of the group.
VARIABLES
    scfg,   \* the arguments and process state of the calls
    sin,    \* the inputs m, z, msa_mask, pair_mask (the full tensors)
    pc,     \* per worker: where its call stands
    blk,    \* per worker: the iteration of the loop over self.blocks
    sm,     \* per worker: its m
    sz,     \* per worker: its z
    stmp,   \* per worker: msa_mask_row, msa_mask_col and the row attention's result
    sout,   \* per worker: None, or the s it returns
    slog    \* per worker: the calls it has issued, in order

svars == <<scfg, sin, pc, blk, sm, sz, stmp, sout, slog>>

\* Two InvariantPointAttention.forward calls of one module, one after the
\* other: call 1 and call 2, which differs from it in one respect.
VARIABLES
    iin,    \* per call: the inputs s, z, r, mask and the inductor's answer
    ipc,    \* the call running and the stage it has reached
    ilin,   \* per call: None, or the projections and the global-frame points
    iatt,   \* per call: None, or the attention weights a
    iout    \* per call: None, or the concatenated output and s_update

ivars == <<iin, ipc, ilin, iatt, iout>>
vars == <<dphase, dcfg, dself, dx, dy, drng, dres,
          scfg, sin, pc, blk, sm, sz, stmp, sout, slog,
          iin, ipc, ilin, iatt, iout>>

(***************************************************************************)
(* Tensors                                                                 *)
(***************************************************************************)
\* Python's list indexing of a rank-n shape by d (negative d counts from
\* the end), as a 1-based position.
PyAxis(d, n) == IF d < 0 THEN n + d + 1 ELSE d + 1

Idx(shape) ==
    (1 .. shape[1]) \X (1 .. shape[2]) \X (1 .. shape[3]) \X (1 .. shape[4])

\* A tensor of the given shape with the entries f (f @@ <<>> is f, evaluated
\* once instead of at every use).
Tensor(shape, f) == [shape |-> shape, v |-> f @@ <<>>]

SetAxis(i, a, n) == <<IF a = 1 THEN n ELSE i[1], IF a = 2 THEN n ELSE i[2],
                      IF a = 3 THEN n ELSE i[3], IF a = 4 THEN n ELSE i[4]>>

NumEl(shape) == shape[1] * shape[2] * shape[3] * shape[4]

\* The position of element i in the row-major order of a tensor.
RowMajor(i, shape) ==
    (((i[1] - 1) * shape[2] + (i[2] - 1)) * shape[3] + (i[3] - 1)) * shape[4] + i[4]

\* Whether a tensor of shape ms broadcasts against one of shape xs.
Broadcastable(ms, xs) == \A a \in 1 .. 4 : ms[a] = xs[a] \/ ms[a] = 1 \/ xs[a] = 1

BroadcastShape(ms, xs) ==
    <<IF ms[1] = 1 THEN xs[1] ELSE ms[1], IF ms[2] = 1 THEN xs[2] ELSE ms[2],
      IF ms[3] = 1 THEN xs[3] ELSE ms[3], IF ms[4] = 1 THEN xs[4] ELSE ms[4]>>

\* The element of t that position i of the broadcast result reads.
At(t, i) ==
    t.v[<<IF t.shape[1] = 1 THEN 1 ELSE i[1], IF t.shape[2] = 1 THEN 1 ELSE i[2],
          IF t.shape[3] = 1 THEN 1 ELSE i[3], IF t.shape[4] = 1 THEN 1 ELSE i[4]>>]

(***************************************************************************)
(* The distributed-parallel service (openfold.dynamic_axial_parallelism),  *)
(* consumed through scatter, gather, row_to_col, size and is_enabled.      *)
(***************************************************************************)
\* scatter(t, dim): the rank-th contiguous chunk of t along dim, of a group
\* of the given size.
dap_scatter(t, dim, rank, size) ==
    LET a == PyAxis(dim, 4)
        local == t.shape[a] \div size
        shape == SetAxis(t.shape, a, local)
    IN  Tensor(shape, [i \in Idx(shape) |-> t.v[SetAxis(i, a, i[a] + rank * local)]])

\* gather(t, dim): the chunks ts[0], ts[1], ... of the group, concatenated
\* along dim in rank order.
dap_gather(ts, dim, size) ==
    LET a == PyAxis(dim, 4)
        local == ts[0].shape[a]
        shape == SetAxis(ts[0].shape, a, local * size)
    IN  Tensor(shape,
               [i \in Idx(shape) |->
                   ts[(i[a] - 1) \div local].v[SetAxis(i, a, ((i[a] - 1) % local) + 1)]])

\* row_to_col(m): the group's relayout of m from sharded along N_seq (dim 1)
\* to sharded along N_res (dim 2).
dap_row_to_col(ts, rank, size) == dap_scatter(dap_gather(ts, 1, size), 2, rank, size)

(***************************************************************************)
(* Shared-mask dropout (dropout.py)                                        *)
(***************************************************************************)
\* Probabilities offered to the constructor; 1/2 and 2/3 have the integer scales 2 and 3.
Prob(n, d) == [num |-> n, den |-> d]
ProbArgs == {Prob(-1, 2), Prob(0, 1), Prob(1, 2), Prob(2, 3), Prob(1, 1), Prob(3, 2)}

\* The check without its upper bound.
ValidP_upper_unchecked(p) == 0 <= p.num

\* assert 0.0 <= p <= 1.0
ValidP(p) == 0 <= p.num /\ p.num <= p.den

\* The constructor arguments of the three classes: share_dim is an int or a
\* tuple.
IntArg(n) == [kind |-> "int", val |-> n]
TupleArg(t) == [kind |-> "tuple", val |-> t]

DropoutRowwise_share_dim == IntArg(-3)

DropoutColumnwise_share_dim == IntArg(-2)

ShareDimOf(cls, arg) ==
    CASE cls = "DropoutRowwise" -> DropoutRowwise_share_dim
      [] cls = "DropoutColumnwise" -> DropoutColumnwise_share_dim
      [] OTHER -> arg

\* Dropout.__init__: the module, or "AssertionError".
Dropout_init(p, share_dim, inplace) ==
    IF ~ValidP(p) THEN Error("AssertionError")
    ELSE [p |-> p,
          share_dim |-> IF share_dim.kind = "int" THEN <<share_dim.val>>
                        ELSE share_dim.val,
          inplace |-> inplace]

\* SharedShape with the shared axis taken one position too far to the right.
SharedShape_off_by_one(xshape, share_dim) ==
    [a \in 1 .. 4 |->
        IF \E k \in 1 .. Len(share_dim) : PyAxis(share_dim[k], 4) + 1 = a
        THEN 1 ELSE xshape[a]]

\* shape = list(x.shape); for d in self.share_dim: shape[d] = 1
SharedShape(xshape, share_dim) ==
    [a \in 1 .. 4 |->
        IF \E k \in 1 .. Len(share_dim) : PyAxis(share_dim[k], 4) = a
        THEN 1 ELSE xshape[a]]

\* if dap_scattered_dim is not None: shape[dap_scattered_dim] *= dap.size()
MaskShape(xshape, share_dim, dap_scattered_dim, size) ==
    LET s == SharedShape(xshape, share_dim)
    IN  IF dap_scattered_dim = None THEN <<s[1], s[2], s[3], s[4]>>
        ELSE SetAxis(s, PyAxis(dap_scattered_dim[1], 4),
                     s[PyAxis(dap_scattered_dim[1], 4)] * size)

\* Whether F.dropout consults the random generator: only in training with
\* 0 < p < 1.
UsesRng(p, training) == training /\ 0 < p.num /\ p.num < p.den

\* The streams a generator can produce for a call that fills a tensor of
\* this shape: one Bernoulli draw per element, in row-major order.
Streams(shape) == [1 .. NumEl(shape) -> {0, 1}]

\* F_dropout that draws in inference mode as it does in training.
F_dropout_ignores_training(shape, p, training, stream) ==
    Tensor(shape,
           [i \in Idx(shape) |->
               IF p.num = 0 THEN 1
               ELSE IF p.num = p.den THEN 0
               ELSE IF stream[RowMajor(i, shape)] = 1 THEN p.den \div (p.den - p.num)
               ELSE 0])

\* F_dropout that keeps the entries at p = 1 instead of zeroing them.
F_dropout_keeps_at_one(shape, p, training, stream) ==
    Tensor(shape,
           [i \in Idx(shape) |->
               IF ~training THEN 1
               ELSE IF p.num = 0 \/ p.num = p.den THEN 1
               ELSE IF stream[RowMajor(i, shape)] = 1 THEN p.den \div (p.den - p.num)
               ELSE 0])

\* F.dropout on a tensor of ones: in training an entry is kept when its
\* draw is 1 and the kept entries are scaled by 1/(1-p); p = 0 keeps every
\* entry and p = 1 none, whatever the generator; not in training the input
\* is returned as it is.
F_dropout(shape, p, training, stream) ==
    Tensor(shape,
           [i \in Idx(shape) |->
               IF ~training THEN 1
               ELSE IF p.num = 0 THEN 1
               ELSE IF p.num = p.den THEN 0
               ELSE IF stream[RowMajor(i, shape)] = 1 THEN p.den \div (p.den - p.num)
               ELSE 0])

\* _mul_add_eager: y + x * mask with the mask broadcast, or the shape
\* mismatch error of the tensor library.
mul_add_eager(x, mask, y) ==
    IF ~Broadcastable(mask.shape, x.shape) \/ ~Broadcastable(y.shape, BroadcastShape(mask.shape, x.shape))
    THEN Error("ShapeError")
    ELSE LET shape == BroadcastShape(y.shape, BroadcastShape(mask.shape, x.shape))
         IN  Tensor(shape, [i \in Idx(shape) |-> At(y, i) + At(x, i) * At(mask, i)])

mul_add_jit_without_residual(x, mask, y) ==
    IF ~Broadcastable(mask.shape, x.shape) \/ ~Broadcastable(y.shape, BroadcastShape(mask.shape, x.shape))
    THEN Error("ShapeError")
    ELSE LET shape == BroadcastShape(y.shape, BroadcastShape(mask.shape, x.shape))
         IN  Tensor(shape, [i \in Idx(shape) |-> At(x, i) * At(mask, i)])

\* _mul_add_jit = torch.compile(_mul_add_eager): the product and the sum in
\* one fused pass over the broadcast shape.
mul_add_jit(x, mask, y) ==
    IF ~Broadcastable(mask.shape, x.shape) \/ ~Broadcastable(y.shape, BroadcastShape(mask.shape, x.shape))
    THEN Error("ShapeError")
    ELSE LET shape == BroadcastShape(BroadcastShape(mask.shape, x.shape), y.shape)
         IN  Tensor(shape, [i \in Idx(shape) |-> At(mask, i) * At(x, i) + At(y, i)])

\* The answers of the inductor: is_enabled_on_hopper() and
\* is_enabled_on_ampere().
Detections == [hopper : BOOLEAN, ampere : BOOLEAN]
NoFusion == [hopper |-> FALSE, ampere |-> FALSE]

\* _mul_add: the compiled function on Hopper, and on Ampere without a
\* parallel group; the eager one otherwise.
mul_add_uses_jit(det, size) == det.hopper \/ (det.ampere /\ size <= 1)
mul_add(x, mask, y, det, size) ==
    IF mul_add_uses_jit(det, size) THEN mul_add_jit(x, mask, y)
    ELSE mul_add_eager(x, mask, y)

\* The mask Dropout.forward combines with x: drawn at MaskShape, then
\* scattered along dap_scattered_dim when one is given.
Dropout_mask(self, training, xshape, dap_scattered_dim, stream, rank, size) ==
    LET full == F_dropout(MaskShape(xshape, self.share_dim, dap_scattered_dim, size),
                          self.p, training, stream)
    IN  IF dap_scattered_dim = None THEN full
        ELSE dap_scatter(full, dap_scattered_dim[1], rank, size)

\* x * mask at the shape of x, written into x.
mul_in_place(x, mask) ==
    IF ~Broadcastable(mask.shape, x.shape) \/ BroadcastShape(mask.shape, x.shape) # x.shape
    THEN x
    ELSE Tensor(x.shape, [i \in Idx(x.shape) |-> At(x, i) * At(mask, i)])

\* A forward that also multiplies x by the mask in place.
inplace_steps_with_mul(self) == IF self.inplace THEN {"dropout", "mul"} ELSE {}

\* The steps of forward that write into their input: inplace=self.inplace
\* is passed to F.dropout and to nothing else.
inplace_steps(self) == IF self.inplace THEN {"dropout"} ELSE {}

\* Dropout.forward: the mask combined and the tensor returned, with the
\* objects of the call: the contents of x and of add_output_to when it
\* returns, the objects it wrote into ("mask" is the tensor x.new_ones
\* created, the input of F.dropout), and the object returned ("new": one
\* that y + x * mask created).
Dropout_forward(self, training, x, add_output_to, dap_scattered_dim, stream, rank, size, det) ==
    Only({[mask |-> mask, out |-> mul_add(x, mask, add_output_to, det, size),
           x |-> IF "mul" \in inplace_steps(self) THEN mul_in_place(x, mask) ELSE x,
           y |-> add_output_to,
           written |-> (IF "dropout" \in inplace_steps(self) THEN {"mask"} ELSE {})
                           \cup (IF "mul" \in inplace_steps(self) THEN {"x"} ELSE {}),
           ret |-> "new"] :
          mask \in {Dropout_mask(self, training, x.shape, dap_scattered_dim, stream, rank, size)}})

(***************************************************************************)
(* One dropout module and one forward call of it by every worker           *)
(***************************************************************************)
\* The shape of the x a worker passes to forward.
LocalShape == <<1, 2, 2, 1>>

\* The shape of the full tensor that x is the shard of.
GlobalShape(cfg) ==
    IF cfg.xaxis = None THEN LocalShape
    ELSE SetAxis(LocalShape, PyAxis(cfg.xaxis[1], 4),
                 LocalShape[PyAxis(cfg.xaxis[1], 4)] * cfg.size)

\* The call sites.  "plain": no parallel group, x is the full tensor, and a
\* dap_scattered_dim may be passed all the same.  "sharded": x is sharded
\* along xaxis, which is passed as dap_scattered_dim.  "block": the call of
\* EvoformerBlock.forward, msa_dropout_rowwise(row_attention, add_output_to=m),
\* which passes no dap_scattered_dim while m is sharded along dim 1.
CallSites ==
    {[site |-> "plain", size |-> 1, xaxis |-> None, dapdim |-> d] :
        d \in {None, Some(1), Some(2)}}
    \cup {[site |-> "sharded", size |-> n, xaxis |-> Some(d), dapdim |-> Some(d)] :
             n \in 2 .. DapSize, d \in {1, 2}}
    \cup {[site |-> "block", size |-> n, xaxis |-> Some(1), dapdim |-> None] :
             n \in 1 .. DapSize}

Classes ==
    {[cls |-> "Dropout", share_dim |-> TupleArg(<<>>)],
     [cls |-> "Dropout", share_dim |-> TupleArg(<<-3, -2>>)],
     [cls |-> "DropoutRowwise", share_dim |-> TupleArg(<<>>)],
     [cls |-> "DropoutColumnwise", share_dim |-> TupleArg(<<>>)]}

\* The two specialisations are the classes called on sharded tensors; the
\* block's module is a DropoutRowwise.
Configs ==
    {[cls |-> c.cls, share_dim |-> c.share_dim, p |-> p, inplace |-> ip,
      training |-> t, sync |-> y, det |-> d, calls |-> n,
      site |-> s.site, size |-> s.size, xaxis |-> s.xaxis, dapdim |-> s.dapdim] :
        c \in Classes, p \in ProbArgs, t \in BOOLEAN, y \in BOOLEAN, s \in CallSites,
        d \in Detections, ip \in BOOLEAN, n \in 1 .. MaxCalls}

ValidConfig(cfg) ==
    /\ cfg.size > 1 => cfg.cls \in {"DropoutRowwise", "DropoutColumnwise"}
    /\ cfg.site = "block" => cfg.cls = "DropoutRowwise"
    /\ cfg.size = 1 => cfg.sync
    /\ cfg.calls > 1 => cfg.size = 1

DWorkers(cfg) == 0 .. (cfg.size - 1)

XInput(shape, xa) ==
    Tensor(shape, [i \in Idx(shape) |-> (2 * i[2] + i[3] + xa) % (MaxVal + 2)])

YInput(shape, ya) == Tensor(shape, [i \in Idx(shape) |-> ya * i[3]])

\* The shard of the full tensor t that worker w holds.
Shard(t, cfg, w) ==
    IF cfg.xaxis = None \/ cfg.size = 1 THEN t
    ELSE dap_scatter(t, cfg.xaxis[1], w, cfg.size)

\* A module and calls drawn from cfgs.
DInitFor(cfgs) ==
    /\ dphase = "new"
    /\ dcfg \in cfgs
    /\ dself = None
    /\ \E xa \in 0 .. MaxVal : dx = XInput(GlobalShape(dcfg), xa)
    /\ \E ya \in 0 .. MaxVal : dy = YInput(GlobalShape(dcfg), ya)
    /\ drng = None
    /\ dres = [w \in DWorkers(dcfg) |-> None]

\* Every module and call site, on a device the inductor is not enabled on.
\* One call per worker, not in place.
SingleCall(c) == c.calls = 1 /\ ~c.inplace
DInit == DInitFor({c \in Configs : ValidConfig(c) /\ c.det = NoFusion /\ SingleCall(c)})

\* Dropout(p, share_dim), DropoutRowwise(p) or DropoutColumnwise(p)
DropoutConstruct ==
    /\ dphase = "new"
    /\ LET m == Dropout_init(dcfg.p, ShareDimOf(dcfg.cls, dcfg.share_dim), dcfg.inplace)
       IN  IF IsError(m)
           THEN dphase' = "failed" /\ dself' = None
           ELSE dphase' = "ready" /\ dself' = Some(m)
    /\ UNCHANGED <<dcfg, dx, dy, drng, dres>> /\ UNCHANGED <<svars, ivars>>

\* Worker w calls forward(x, add_output_to, dap_scattered_dim) on its shard,
\* and calls it again, on the same two tensors as the call before left them,
\* until it has made dcfg.calls calls.  With the generators of the group in
\* lockstep (sync) every worker's generator produces the stream the first
\* one produced; a later call of a worker draws anew.
DropoutForward(w) ==
    /\ dphase = "ready"
    /\ IF dres[w] = None THEN TRUE ELSE dres[w][1].calls < dcfg.calls
    /\ LET x == IF dres[w] = None THEN Shard(dx, dcfg, w) ELSE dres[w][1].x
           y == IF dres[w] = None THEN Shard(dy, dcfg, w) ELSE dres[w][1].y
           n == IF dres[w] = None THEN 0 ELSE dres[w][1].calls
           self == dself[1]
           shape == MaskShape(x.shape, self.share_dim, dcfg.dapdim, dcfg.size)
           uses == UsesRng(self.p, dcfg.training)
           streams == IF ~uses THEN {[k \in 1 .. NumEl(shape) |-> 1]}
                      ELSE IF dcfg.sync /\ drng # None /\ n = 0 THEN {drng[1]}
                      ELSE Streams(shape)
       IN  \E stream \in streams :
               /\ dres' = [dres EXCEPT ![w] =
                              Some(Dropout_forward(self, dcfg.training, x, y, dcfg.dapdim,
                                                   stream, w, dcfg.size, dcfg.det)
                                   @@ [calls |-> n + 1])]
               /\ drng' = IF uses /\ dcfg.sync THEN Some(stream) ELSE drng
    /\ UNCHANGED <<dphase, dcfg, dself, dx, dy>> /\ UNCHANGED <<svars, ivars>>

DNext == DropoutConstruct \/ \E w \in DWorkers(dcfg) : DropoutForward(w)

(***************************************************************************)
(* The collaborators of the block and the stack: row and column MSA        *)
(* attention, the block core and the linear projection, as fixed integer   *)
(* functions (modulo Modulus) with the data dependencies of the            *)
(* originals.  Each fails fast on a shape mismatch.                        *)
(***************************************************************************)
NSeq == 2 * DapSize
NRes == DapSize
Modulus == MaxVal + 2

Sum(f, S) ==
    LET RECURSIVE acc(_)
        acc(T) == IF T = {} THEN 0
                  ELSE LET x == CHOOSE x \in T : TRUE IN f[x] + acc(T \ {x})
    IN  acc(S)

\* The parameters of the k-th block of the stack: every block is a module of
\* its own.
BlockParam(k) == k

\* MSARowAttentionWithPairBias: position (s, r) attends over the residues r'
\* of its own sequence s, biased by the pair representation at (r, r').
MSARowAttentionWithPairBias(m, z, mask, k) ==
    IF mask.shape # m.shape \/ z.shape # <<m.shape[1], m.shape[3], m.shape[3], m.shape[4]>>
    THEN Error("ShapeError")
    ELSE Tensor(m.shape,
                [i \in Idx(m.shape) |->
                    Sum([r \in 1 .. m.shape[3] |->
                            mask.v[SetAxis(i, 3, r)]
                            * (m.v[SetAxis(i, 3, r)] + z.v[<<i[1], i[3], r, i[4]>>] + k)],
                        1 .. m.shape[3]) % Modulus])

\* MSAColumnAttention: position (s, r) attends over the sequences s' of its
\* own residue r; the result is the updated m.
MSAColumnAttention(m, mask, k) ==
    IF mask.shape # m.shape THEN Error("ShapeError")
    ELSE Tensor(m.shape,
                [i \in Idx(m.shape) |->
                    (m.v[i] + k
                     + Sum([q \in 1 .. m.shape[2] |->
                               mask.v[SetAxis(i, 2, q)] * m.v[SetAxis(i, 2, q)]],
                           1 .. m.shape[2])) % Modulus])

\* EvoformerBlockCore on the full tensors: the transition of m and the
\* outer-product-mean update of z.
EvoformerBlockCore(m, z, msa_mask, pair_mask, k) ==
    IF msa_mask.shape # m.shape \/ pair_mask.shape # z.shape
       \/ z.shape # <<m.shape[1], m.shape[3], m.shape[3], m.shape[4]>>
    THEN Error("ShapeError")
    ELSE [m |-> Tensor(m.shape,
                       [i \in Idx(m.shape) |-> ((Modulus - 1) * m.v[i] + msa_mask.v[i] + k) % Modulus]),
          z |-> Tensor(z.shape,
                       [i \in Idx(z.shape) |->
                           (z.v[i] + k
                            + pair_mask.v[i]
                              * Sum([q \in 1 .. m.shape[2] |->
                                        msa_mask.v[<<i[1], q, i[2], i[4]>>]
                                        * msa_mask.v[<<i[1], q, i[3], i[4]>>]
                                        * m.v[<<i[1], q, i[2], i[4]>>]
                                        * m.v[<<i[1], q, i[3], i[4]>>]],
                                    1 .. m.shape[2])) % Modulus])]

\* Linear(c_m, c_s) on a [batch, N_res, c_m] tensor: [batch, N_res, c_s],
\* here with c_s = 2 output channels.
Linear(row) ==
    [shape |-> <<row.shape[1], row.shape[2], 2>>,
     v |-> [i \in (1 .. row.shape[1]) \X (1 .. row.shape[2]) \X (1 .. 2) |->
               (i[3] * row.v[<<i[1], i[2], 1>>] + 1) % Modulus]]

(***************************************************************************)
(* Evoformer block (evoformer_block.py)                                    *)
(***************************************************************************)
\* self.msa_dropout_rowwise = DropoutRowwise(p=msa_dropout)
msa_dropout_rowwise == Dropout_init(Prob(1, 2), DropoutRowwise_share_dim, FALSE)

\* msa_mask_row = dap.scatter(msa_mask, dim=1)
msa_mask_row(msa_mask, rank) == dap_scatter(msa_mask, 1, rank, DapSize)

\* The column mask scattered along dim 1, as the row mask is.
msa_mask_col_along_rows(msa_mask, rank) == dap_scatter(msa_mask, 1, rank, DapSize)

\* msa_mask_col = dap.scatter(msa_mask, dim=2)
msa_mask_col(msa_mask, rank) == dap_scatter(msa_mask, 2, rank, DapSize)

\* m = self.msa_dropout_rowwise(row_attention, add_output_to=m): no
\* dap_scattered_dim is passed.  The stack is run in inference mode, so the
\* generator is not consulted.
Block_dropout(upd, m, training) ==
    Dropout_forward(msa_dropout_rowwise, training, upd, m, None,
                    [k \in 1 .. NumEl(upd.shape) |-> 1], 0, 1, NoFusion).out

\* The block with distributed execution inactive (the else branch and the
\* core call): the updated [m, z], or an error.
EvoformerBlock_forward_local(m, z, msa_mask, pair_mask, k) ==
    LET core(m2) == IF IsError(m2) THEN m2
                    ELSE EvoformerBlockCore(m2, z, msa_mask, pair_mask, k)
        col_att(m1) == IF IsError(m1) THEN m1
                       ELSE Only({core(m2) : m2 \in {MSAColumnAttention(m1, msa_mask, k)}})
        dropout(upd) == IF IsError(upd) THEN upd
                        ELSE Only({col_att(m1) : m1 \in {Block_dropout(upd, m, FALSE)}})
    IN  Only({dropout(upd) : upd \in {MSARowAttentionWithPairBias(m, z, msa_mask, k)}})

(***************************************************************************)
(* Evoformer stack (evoformer_stack.py)                                    *)
(***************************************************************************)
\* for block in self.blocks: the block applied at the j-th iteration.
BlockAt_reversed(j, nb) == nb + 1 - j

BlockAt(j, nb) == j

\* _forward_blocks: m = dap.scatter(m, dim=1); z = dap.scatter(z, dim=1)
forward_blocks_scatter_along_res(t, rank) == dap_scatter(t, 2, rank, DapSize)

forward_blocks_scatter(t, rank) == dap_scatter(t, 1, rank, DapSize)

\* _forward_blocks: m = dap.gather(m, dim=1); z = dap.gather(z, dim=1)
forward_blocks_gather(ts) == dap_gather(ts, 1, DapSize)

\* _forward_blocks_with_gradient_checkpointing: the scatter and the gather
\* of that path.
forward_blocks_gc_scatter(t, rank) == dap_scatter(t, 1, rank, DapSize)

forward_blocks_gc_gather_none(ts, rank) == ts[rank]

forward_blocks_gc_gather(ts, rank) == dap_gather(ts, 1, DapSize)

\* The masks a block call receives: passed at each call on the direct path,
\* bound by partial(block, msa_mask=..., pair_mask=...) on the other.
Direct_masks(msa_mask, pair_mask) == [msa_mask |-> msa_mask, pair_mask |-> pair_mask]

Partial_masks(msa_mask, pair_mask) == [msa_mask |-> msa_mask, pair_mask |-> pair_mask]

\* m[:, 0, :, :]
QueryRow_last(m) ==
    [shape |-> <<m.shape[1], m.shape[3], m.shape[4]>>,
     v |-> [i \in (1 .. m.shape[1]) \X (1 .. m.shape[3]) \X (1 .. m.shape[4]) |->
               m.v[<<i[1], m.shape[2], i[2], i[3]>>]]]

QueryRow(m) ==
    [shape |-> <<m.shape[1], m.shape[3], m.shape[4]>>,
     v |-> [i \in (1 .. m.shape[1]) \X (1 .. m.shape[3]) \X (1 .. m.shape[4]) |->
               m.v[<<i[1], 1, i[2], i[3]>>]]]

\* s = self.linear(m[:, 0, :, :])
ProjectS(m) == Linear(QueryRow(m))

(***************************************************************************)
(* One EvoformerStack.forward call by every worker of the group            *)
(***************************************************************************)
\* The last worker of the group is the one whose call may differ from the
\* others' in one respect (dev).
Deviant == DapSize - 1
Deviations == {"none", "blocks", "dap", "grad", "gc"}

NbOf(w) == IF w = Deviant /\ scfg.dev = "blocks" THEN (scfg.nb % MaxBlocks) + 1 ELSE scfg.nb
GcOf(w) == IF w = Deviant /\ scfg.dev = "gc" THEN ~scfg.gc ELSE scfg.gc
GradOf(w) == IF w = Deviant /\ scfg.dev = "grad" THEN ~scfg.grad ELSE scfg.grad
\* dap.is_enabled() in worker w's process
EnabledOf(w) == IF w = Deviant /\ scfg.dev = "dap" THEN ~scfg.enabled ELSE scfg.enabled

MInput ==
    Tensor(<<1, NSeq, NRes, 1>>,
           [i \in Idx(<<1, NSeq, NRes, 1>>) |-> (i[2] * i[3]) % Modulus])

ZInput == Tensor(<<1, NRes, NRes, 1>>,
                 [i \in Idx(<<1, NRes, NRes, 1>>) |-> (i[2] * i[3]) % Modulus])

\* A mask of ones, with the last position masked out when hole is set.
MaskInput(shape, hole) ==
    Tensor(shape, [i \in Idx(shape) |-> IF hole /\ i = shape THEN 0 ELSE 1])

Scalar == Tensor(<<1, 1, 1, 1>>, [i \in Idx(<<1, 1, 1, 1>>) |-> 0])

\* A call the worker issued: the block it belongs to (0: the stack) and the
\* masks passed.
Event(op, k, a, b) == [op |-> op, blk |-> k, a |-> a, b |-> b]

\* The layout of worker w's m: "full", sharded along N_seq ("row") or along
\* N_res ("col").
Layout(t) ==
    IF t.shape = <<1, NSeq, NRes, 1>> THEN "full"
    ELSE IF t.shape = <<1, NSeq \div DapSize, NRes, 1>> THEN "row"
    ELSE IF t.shape = <<1, NSeq, NRes \div DapSize, 1>> THEN "col"
    ELSE "other"

SIdle ==
    /\ scfg = [nb |-> 1, gc |-> FALSE, grad |-> FALSE, enabled |-> FALSE, dev |-> "none"]
    /\ sin = [m |-> Scalar, z |-> Scalar, msa_mask |-> Scalar, pair_mask |-> Scalar]
    /\ pc = [w \in Workers |-> "idle"]
    /\ blk = [w \in Workers |-> 0]
    /\ sm = [w \in Workers |-> Scalar]
    /\ sz = [w \in Workers |-> Scalar]
    /\ stmp = [w \in Workers |-> [mask_row |-> Scalar, mask_col |-> Scalar, upd |-> Scalar]]
    /\ sout = [w \in Workers |-> None]
    /\ slog = [w \in Workers |-> <<>>]

DIdle ==
    /\ dphase = "idle"
    /\ dcfg = [cls |-> "Dropout", share_dim |-> TupleArg(<<>>), p |-> Prob(0, 1),
               inplace |-> FALSE, training |-> FALSE, sync |-> TRUE, det |-> NoFusion,
               calls |-> 1, site |-> "plain", size |-> 1, xaxis |-> None, dapdim |-> None]
    /\ dself = None
    /\ dx = Scalar
    /\ dy = Scalar
    /\ drng = None
    /\ dres = [w \in {0} |-> None]

\* The arguments of the calls.  Whether gradient computation is enabled is
\* read only by a call with gradient_checkpointing = True: when no worker
\* makes one it is taken as enabled.
SInit ==
    /\ scfg \in [nb : 1 .. MaxBlocks, gc : BOOLEAN, grad : BOOLEAN, enabled : BOOLEAN,
                 dev : Deviations]
    /\ (\A w \in Workers : ~GcOf(w)) => scfg.grad
    /\ \E hole \in BOOLEAN :
           sin = [m |-> MInput, z |-> ZInput,
                  msa_mask |-> MaskInput(<<1, NSeq, NRes, 1>>, hole),
                  pair_mask |-> MaskInput(<<1, NRes, NRes, 1>>, hole)]
    /\ pc = [w \in Workers |-> "start"]
    /\ blk = [w \in Workers |-> 0]
    /\ sm = [w \in Workers |-> sin.m]
    /\ sz = [w \in Workers |-> sin.z]
    /\ stmp = [w \in Workers |-> [mask_row |-> Scalar, mask_col |-> Scalar, upd |-> Scalar]]
    /\ sout = [w \in Workers |-> None]
    /\ slog = [w \in Workers |-> <<>>]

\* The masks the blocks of worker w's call receive.
BlockMasks(w) ==
    IF GcOf(w) THEN Partial_masks(sin.msa_mask, sin.pair_mask)
    ELSE Direct_masks(sin.msa_mask, sin.pair_mask)

\* The entry of the loop over the blocks, after the scatter of m and z.
EnterBlocks(w, m, z) ==
    /\ sm' = [sm EXCEPT ![w] = m]
    /\ sz' = [sz EXCEPT ![w] = z]
    /\ slog' = [slog EXCEPT ![w] =
                   IF EnabledOf(w)
                   THEN <<Event("scatter_m", 0, None, None), Event("scatter_z", 0, None, None)>>
                   ELSE <<>>]
    /\ blk' = [blk EXCEPT ![w] = 1]
    /\ pc' = [pc EXCEPT ![w] = "block"]

\* forward with gradient_checkpointing = False, up to the loop of
\* _forward_blocks.
ForwardDirect(w) ==
    /\ pc[w] = "start" /\ ~GcOf(w)
    /\ IF EnabledOf(w)
       THEN EnterBlocks(w, forward_blocks_scatter(sin.m, w), forward_blocks_scatter(sin.z, w))
       ELSE EnterBlocks(w, sin.m, sin.z)
    /\ UNCHANGED <<scfg, sin, stmp, sout>> /\ UNCHANGED <<dvars, ivars>>

\* A forward that does not make the assertion.
grad_assertion_skipped(w) == TRUE

\* assert torch.is_grad_enabled(): whether the assertion passes in worker w.
grad_assertion(w) == GradOf(w)

\* forward with gradient_checkpointing = True: the assertion, then
\* _forward_blocks_with_gradient_checkpointing up to its loop.
ForwardCheckpointed(w) ==
    /\ pc[w] = "start" /\ GcOf(w)
    /\ IF ~grad_assertion(w)
       THEN /\ pc' = [pc EXCEPT ![w] = "AssertionError"]
            /\ UNCHANGED <<blk, sm, sz, slog>>
       ELSE IF EnabledOf(w)
       THEN EnterBlocks(w, forward_blocks_gc_scatter(sin.m, w),
                        forward_blocks_gc_scatter(sin.z, w))
       ELSE EnterBlocks(w, sin.m, sin.z)
    /\ UNCHANGED <<scfg, sin, stmp, sout>> /\ UNCHANGED <<dvars, ivars>>

BlockEvent(w) ==
    Event("block", BlockAt(blk[w], NbOf(w)),
          Some(BlockMasks(w).msa_mask), Some(BlockMasks(w).pair_mask))

\* A block that takes the distributed branch in the first worker only.
Block_dap_is_enabled_first_only(w) == EnabledOf(w) /\ w = 0

\* if dap.is_enabled(): the branch the block takes in worker w.
Block_dap_is_enabled(w) == EnabledOf(w)

\* EvoformerBlock.forward with distributed execution active, up to the call
\* of the row attention, which gathers the sharded z inside.
BlockRowAttentionCall(w) ==
    /\ pc[w] = "block" /\ Block_dap_is_enabled(w)
    /\ \E k \in {BlockAt(blk[w], NbOf(w))}, row \in {msa_mask_row(BlockMasks(w).msa_mask, w)},
          col \in {msa_mask_col(BlockMasks(w).msa_mask, w)} :
           /\ stmp' = [stmp EXCEPT ![w] = [mask_row |-> row, mask_col |-> col, upd |-> Scalar]]
           /\ slog' = [slog EXCEPT ![w] =
                          @ \o <<BlockEvent(w),
                                 Event("scatter_mask", k, Some(row), None),
                                 Event("scatter_mask", k, Some(col), None),
                                 Event("row_att", k, Some(row), None)>>]
    /\ pc' = [pc EXCEPT ![w] = "row_att"]
    /\ UNCHANGED <<scfg, sin, blk, sm, sz, sout>> /\ UNCHANGED <<dvars, ivars>>

\* A collective completes once every worker of the group has reached it, at
\* the same iteration.
AllAt(label) == \A w \in Workers : pc[w] = label /\ blk[w] = blk[0]

\* The row attention returns in every worker.
RowAttentionReturn ==
    /\ AllAt("row_att")
    /\ \E z \in {dap_gather(sz, 1, DapSize)} :
       \E upd \in {[w \in Workers |->
                      MSARowAttentionWithPairBias(sm[w], z, stmp[w].mask_row,
                                                  BlockParam(BlockAt(blk[w], NbOf(w))))] @@ <<>>} :
           /\ stmp' = [w \in Workers |->
                          [stmp[w] EXCEPT !.upd = IF IsError(upd[w]) THEN Scalar ELSE upd[w]]]
           /\ pc' = [w \in Workers |-> IF IsError(upd[w]) THEN "ShapeError" ELSE "dropout"]
    /\ UNCHANGED <<scfg, sin, blk, sm, sz, sout, slog>> /\ UNCHANGED <<dvars, ivars>>

\* The row-wise dropout adds the row attention's result to m; then
\* m = dap.row_to_col(m) is called.
BlockDropoutRowToCol(w) ==
    /\ pc[w] = "dropout"
    /\ \E k \in {BlockAt(blk[w], NbOf(w))}, m \in {Block_dropout(stmp[w].upd, sm[w], FALSE)} :
           IF IsError(m)
           THEN pc' = [pc EXCEPT ![w] = "ShapeError"] /\ UNCHANGED <<sm, slog>>
           ELSE /\ sm' = [sm EXCEPT ![w] = m]
                /\ slog' = [slog EXCEPT ![w] =
                               @ \o <<Event("dropout", k, None, None),
                                      Event("row_to_col", k, None, None)>>]
                /\ pc' = [pc EXCEPT ![w] = "row_to_col"]
    /\ UNCHANGED <<scfg, sin, blk, sz, stmp, sout>> /\ UNCHANGED <<dvars, ivars>>

\* row_to_col returns in every worker.
RowToColReturn ==
    /\ AllAt("row_to_col")
    /\ sm' = [w \in Workers |-> dap_row_to_col(sm, w, DapSize)]
    /\ pc' = [w \in Workers |-> "col_att"]
    /\ UNCHANGED <<scfg, sin, blk, sz, stmp, sout, slog>> /\ UNCHANGED <<dvars, ivars>>

\* The column attention replaces m; then the core is called with the
\* unsharded masks.
BlockColumnAttentionCore(w) ==
    /\ pc[w] = "col_att"
    /\ \E k \in {BlockAt(blk[w], NbOf(w))} :
       \E m \in {MSAColumnAttention(sm[w], stmp[w].mask_col, BlockParam(k))} :
           IF IsError(m)
           THEN pc' = [pc EXCEPT ![w] = "ShapeError"] /\ UNCHANGED <<sm, slog>>
           ELSE /\ sm' = [sm EXCEPT ![w] = m]
                /\ slog' = [slog EXCEPT ![w] =
                               @ \o <<Event("col_att", k, Some(stmp[w].mask_col), None),
                                      Event("core", k, Some(BlockMasks(w).msa_mask),
                                            Some(BlockMasks(w).pair_mask))>>]
                /\ pc' = [pc EXCEPT ![w] = "core"]
    /\ UNCHANGED <<scfg, sin, blk, sz, stmp, sout>> /\ UNCHANGED <<dvars, ivars>>

\* The core returns in every worker, m and z sharded along dim 1 again; a
\* worker whose loop is over calls dap.gather(m, dim=1).
CoreReturn ==
    /\ AllAt("core")
    /\ \E m \in {dap_gather(sm, 2, DapSize)}, z \in {dap_gather(sz, 1, DapSize)} :
       \E r \in {[w \in Workers |->
                    EvoformerBlockCore(m, z, BlockMasks(w).msa_mask, BlockMasks(w).pair_mask,
                                       BlockParam(BlockAt(blk[w], NbOf(w))))] @@ <<>>} :
       LET last == [w \in Workers |-> blk[w] >= NbOf(w)]
       IN  /\ sm' = [w \in Workers |->
                        IF IsError(r[w]) THEN sm[w] ELSE dap_scatter(r[w].m, 1, w, DapSize)]
           /\ sz' = [w \in Workers |->
                        IF IsError(r[w]) THEN sz[w] ELSE dap_scatter(r[w].z, 1, w, DapSize)]
           /\ pc' = [w \in Workers |->
                        IF IsError(r[w]) THEN "ShapeError"
                        ELSE IF last[w] THEN "gather" ELSE "block"]
           /\ blk' = [w \in Workers |-> IF IsError(r[w]) \/ last[w] THEN blk[w] ELSE blk[w] + 1]
           /\ slog' = [w \in Workers |->
                          IF ~IsError(r[w]) /\ last[w]
                          THEN slog[w] \o <<Event("gather_m", 0, None, None)>> ELSE slog[w]]
    /\ UNCHANGED <<scfg, sin, stmp, sout>> /\ UNCHANGED <<dvars, ivars>>

\* gather(m) and then gather(z) return in every worker.
GatherReturn ==
    /\ \A w \in Workers : pc[w] = "gather"
    /\ sm' = [w \in Workers |->
                 IF GcOf(w) THEN forward_blocks_gc_gather(sm, w) ELSE forward_blocks_gather(sm)]
    /\ sz' = [w \in Workers |->
                 IF GcOf(w) THEN forward_blocks_gc_gather(sz, w) ELSE forward_blocks_gather(sz)]
    /\ slog' = [w \in Workers |-> slog[w] \o <<Event("gather_z", 0, None, None)>>]
    /\ pc' = [w \in Workers |-> "project"]
    /\ UNCHANGED <<scfg, sin, blk, stmp, sout>> /\ UNCHANGED <<dvars, ivars>>

\* EvoformerBlock.forward with distributed execution inactive: the whole
\* block runs in the worker.
BlockLocal(w) ==
    /\ pc[w] = "block" /\ ~Block_dap_is_enabled(w)
    /\ \E k \in {BlockAt(blk[w], NbOf(w))}, masks \in {BlockMasks(w)} :
       \E r \in {EvoformerBlock_forward_local(sm[w], sz[w], masks.msa_mask, masks.pair_mask,
                                               BlockParam(k))} :
           IF IsError(r)
           THEN pc' = [pc EXCEPT ![w] = "ShapeError"] /\ UNCHANGED <<sm, sz, slog, blk>>
           ELSE /\ sm' = [sm EXCEPT ![w] = r.m]
                /\ sz' = [sz EXCEPT ![w] = r.z]
                /\ slog' = [slog EXCEPT ![w] =
                               @ \o <<BlockEvent(w),
                                      Event("row_att", k, Some(masks.msa_mask), None),
                                      Event("dropout", k, None, None),
                                      Event("col_att", k, Some(masks.msa_mask), None),
                                      Event("core", k, Some(masks.msa_mask),
                                            Some(masks.pair_mask))>>]
                /\ IF blk[w] >= NbOf(w)
                   THEN pc' = [pc EXCEPT ![w] = "project"] /\ blk' = blk
                   ELSE pc' = pc /\ blk' = [blk EXCEPT ![w] = @ + 1]
    /\ UNCHANGED <<scfg, sin, stmp, sout>> /\ UNCHANGED <<dvars, ivars>>

\* s = self.linear(m[:, 0, :, :]); return m, z, s
Project(w) ==
    /\ pc[w] = "project"
    /\ sout' = [sout EXCEPT ![w] = Some(ProjectS(sm[w]))]
    /\ slog' = [slog EXCEPT ![w] = @ \o <<Event("project", 0, None, None)>>]
    /\ pc' = [pc EXCEPT ![w] = "done"]
    /\ UNCHANGED <<scfg, sin, blk, sm, sz, stmp>> /\ UNCHANGED <<dvars, ivars>>

Next ==
    \/ \E w \in Workers : ForwardDirect(w)
    \/ \E w \in Workers : ForwardCheckpointed(w)
    \/ \E w \in Workers : BlockRowAttentionCall(w)
    \/ RowAttentionReturn
    \/ \E w \in Workers : BlockDropoutRowToCol(w)
    \/ RowToColReturn
    \/ \E w \in Workers : BlockColumnAttentionCore(w)
    \/ CoreReturn
    \/ GatherReturn
    \/ \E w \in Workers : BlockLocal(w)
    \/ \E w \in Workers : Project(w)

(***************************************************************************)
(* Invariant point attention                                               *)
(*                                                                         *)
(* s is [N_res, c_s] with c_s = 2, z is [N_res, N_res, c_z] with c_z = 1,  *)
(* c_hidden, num_qk_points and num_v_points are 1.  Attention weights and  *)
(* everything computed from them are exact rationals [num, den] in lowest  *)
(* terms; points are triples <<x, y, z>>.                                  *)
(***************************************************************************)
\* N_res of an invariant point attention call.
IpaRes == 2
\* The softmax computes exp in floating point: a term more than ExpRange
\* binary orders of magnitude below the largest term of its row is 0.
ExpRange == 3
\* The module's inf and eps (eps = 1 / IpaEpsInv).
IpaInf == 40
IpaEpsInv == 100
num_heads == 2

Residues == 1 .. IpaRes
Heads == 1 .. num_heads

\* The function f with its values computed.
Fn(f) == f @@ <<>>
Abs(n) == IF n < 0 THEN 0 - n ELSE n
Max(S) == CHOOSE x \in S : \A y \in S : y <= x
RECURSIVE GCD(_, _)
GCD(a, b) == IF b = 0 THEN a ELSE GCD(b, a % b)
\* The rational n / d, d # 0, in lowest terms with a positive denominator.
Frac(n, d) ==
    LET g == GCD(Abs(n), Abs(d))
        sgn == IF d < 0 THEN 0 - 1 ELSE 1
    IN  [num |-> sgn * (n \div g), den |-> sgn * (d \div g)]
FInt(n) == [num |-> n, den |-> 1]
FAdd(a, b) == Frac(a.num * b.den + b.num * a.den, a.den * b.den)
FMul(a, b) == Frac(a.num * b.num, a.den * b.den)
RECURSIVE FSumTo(_, _)
FSumTo(f, n) == IF n = 0 THEN FInt(0) ELSE FAdd(FSumTo(f, n - 1), f[n])
\* The sum of the rationals f[1], ..., f[IpaRes].
FSum(f) == FSumTo(f, IpaRes)

VAdd(u, v) == <<u[1] + v[1], u[2] + v[2], u[3] + v[3]>>
VSub(u, v) == <<u[1] - v[1], u[2] - v[2], u[3] - v[3]>>
SqNorm(u) == u[1] * u[1] + u[2] * u[2] + u[3] * u[3]
MatVec(R, v) == Fn([a \in 1 .. 3 |-> R[a][1] * v[1] + R[a][2] * v[2] + R[a][3] * v[3]])
Transpose(R) == Fn([a \in 1 .. 3 |-> Fn([c \in 1 .. 3 |-> R[c][a]])])
MatMul(R, Q) == Fn([a \in 1 .. 3 |-> Fn([c \in 1 .. 3 |->
                    R[a][1] * Q[1][c] + R[a][2] * Q[2][c] + R[a][3] * Q[3][c]])])

\* openfold.rigid_utils.Rigid: a rotation and a translation.  apply maps a
\* local point to the global frame, invert_apply maps it back, compose(g, r)
\* is the frame r followed by g.
Rigid(rot, trans) == [rot |-> rot, trans |-> trans]
Rigid_apply(r, p) == VAdd(MatVec(r.rot, p), r.trans)
Rigid_invert_apply(r, p) == MatVec(Transpose(r.rot), VSub(p, r.trans))
Rigid_compose(g, r) == Rigid(MatMul(g.rot, r.rot), Rigid_apply(g, r.trans))
RotId == <<<<1, 0, 0>>, <<0, 1, 0>>, <<0, 0, 1>>>>
RotZ == <<<<0, 0 - 1, 0>>, <<1, 0, 0>>, <<0, 0, 1>>>>
RotX == <<<<1, 0, 0>>, <<0, 0, 0 - 1>>, <<0, 1, 0>>>>
Rigid_identity == Rigid(RotId, <<0, 0, 0>>)
\* invert_apply on a point with rational coordinates.
Rigid_invert_apply_frac(r, p) ==
    LET d == Fn([a \in 1 .. 3 |-> FAdd(p[a], FInt(0 - r.trans[a]))])
        Rt == Transpose(r.rot)
    IN  Fn([a \in 1 .. 3 |->
            FAdd(FAdd(FMul(FInt(Rt[a][1]), d[1]), FMul(FInt(Rt[a][2]), d[2])),
                 FMul(FInt(Rt[a][3]), d[3]))])

\* The module's parameters.  Channel 1 of s feeds the scalar projections and
\* channel 2 the point projections; every layer has a bias.
linear_q(s, h) == s[1] + (h - 1)
linear_k(s, h) == s[1]
linear_v(s, h) == 2 * s[1] + h
linear_q_points(s, h) == <<s[2], h - 1, 0>>
linear_k_points(s, h) == <<1, s[2], 0>>
linear_v_points(s, h) == <<s[2], 1, h>>
linear_b(zij, h) == h * zij + 1
\* softplus(head_weights) * sqrt(1 / (3 * (num_qk_points * 9 / 2))) * 0.5,
\* the positive weight of the squared distances, in units of a logit.
point_weight(h) == 1

\* _forward_linears_on_inputs_eager, followed by the views and splits of
\* forward: q, k, v per residue and head, the pair bias b, and the points
\* in each residue's local frame.
forward_linears_on_inputs_eager(s, z) ==
    [q |-> Fn([i \in Residues |-> Fn([h \in Heads |-> linear_q(s[i], h)])]),
     k |-> Fn([i \in Residues |-> Fn([h \in Heads |-> linear_k(s[i], h)])]),
     v |-> Fn([i \in Residues |-> Fn([h \in Heads |-> linear_v(s[i], h)])]),
     b |-> Fn([i \in Residues |-> Fn([j \in Residues |-> Fn([h \in Heads |-> linear_b(z[i][j], h)])])]),
     q_pts |-> Fn([i \in Residues |-> Fn([h \in Heads |-> linear_q_points(s[i], h)])]),
     k_pts |-> Fn([i \in Residues |-> Fn([h \in Heads |-> linear_k_points(s[i], h)])]),
     v_pts |-> Fn([i \in Residues |-> Fn([h \in Heads |-> linear_v_points(s[i], h)])])]

\* r.apply on the query, key and value points: the points in the global frame.
forward_points(lin, r) ==
    [q_pts |-> Fn([i \in Residues |-> Fn([h \in Heads |-> Rigid_apply(r[i], lin.q_pts[i][h])])]),
     k_pts |-> Fn([i \in Residues |-> Fn([h \in Heads |-> Rigid_apply(r[i], lin.k_pts[i][h])])]),
     v_pts |-> Fn([i \in Residues |-> Fn([h \in Heads |-> Rigid_apply(r[i], lin.v_pts[i][h])])])]

\* torch.matmul of q and k: the scalar dot products.  The factors
\* sqrt(1 / (3 * c_hidden)) on them and sqrt(1 / 3) on b are part of the
\* weights of linear_q and linear_b above.
forward_qk(lin) ==
    Fn([h \in Heads |-> Fn([i \in Residues |-> Fn([j \in Residues |-> lin.q[i][h] * lin.k[j][h]])])])

\* The weighted squared distance of query point i and key point j (summed
\* over the num_qk_points = 1 points), which is subtracted from the logit.
pt_att(q_pts, k_pts, h, i, j) ==
    point_weight(h) * SqNorm(VSub(q_pts[i][h], k_pts[j][h]))

\* square_mask: 0 where both residues are valid, -inf elsewhere.
square_mask(mask, inf, i, j) == (mask[i] * mask[j] - 1) * inf

\* torch.softmax over the keys, in floating point: each term is
\* 2^(x - max), flushed to 0 below 2^(-ExpRange), over the sum of the terms.
softmax(x) ==
    LET mx == Max({x[j] : j \in Residues})
        e == Fn([j \in Residues |->
                IF mx - x[j] > ExpRange THEN 0 ELSE 2 ^ (ExpRange - (mx - x[j]))])
        RECURSIVE total(_)
        total(n) == IF n = 0 THEN 0 ELSE total(n - 1) + e[n]
    IN  Fn([j \in Residues |-> Frac(e[j], total(IpaRes))])

forward_a_logits_without_points(a, b, q_pts, k_pts, mask, inf) ==
    Fn([h \in Heads |-> Fn([i \in Residues |-> Fn([j \in Residues |->
        (a[h][i][j] + b[i][j][h]) + square_mask(mask, inf, i, j)])])])
\* The logits before the softmax.
forward_a_logits(a, b, q_pts, k_pts, mask, inf) ==
    Fn([h \in Heads |-> Fn([i \in Residues |-> Fn([j \in Residues |->
        ((a[h][i][j] + b[i][j][h]) - pt_att(q_pts, k_pts, h, i, j))
            + square_mask(mask, inf, i, j)])])])

forward_a_eager(a, b, q_pts, k_pts, mask, inf) ==
    LET x == forward_a_logits(a, b, q_pts, k_pts, mask, inf)
    IN  Fn([h \in Heads |-> Fn([i \in Residues |-> softmax(x[h][i])])])

\* torch.compile(_forward_a_eager): one fused pass per (head, query) row
\* that adds the mask first and the bias and the distances after it.
forward_a_jit(a, b, q_pts, k_pts, mask, inf) ==
    Fn([h \in Heads |-> Fn([i \in Residues |-> softmax(Fn([j \in Residues |->
        (a[h][i][j] + square_mask(mask, inf, i, j))
            + (b[i][j][h] - pt_att(q_pts, k_pts, h, i, j))]))])])

\* The square root of a rational, kept as a term.
Sqrt(f) == [sqrt |-> f]
forward_o_pt_norm_eager(o_pt, eps) ==
    Sqrt(FAdd(FAdd(FAdd(FMul(o_pt[1], o_pt[1]), FMul(o_pt[2], o_pt[2])),
                   FMul(o_pt[3], o_pt[3])), eps))
\* torch.compile(_forward_o_pt_norm_eager): eps is the first term of the sum.
forward_o_pt_norm_jit(o_pt, eps) ==
    Sqrt(FAdd(eps, FAdd(FMul(o_pt[1], o_pt[1]),
                        FAdd(FMul(o_pt[2], o_pt[2]), FMul(o_pt[3], o_pt[3])))))

\* inductor.is_enabled() selects the compiled functions.
forward_a_fn(enabled, a, b, q_pts, k_pts, mask, inf) ==
    IF enabled THEN forward_a_jit(a, b, q_pts, k_pts, mask, inf)
    ELSE forward_a_eager(a, b, q_pts, k_pts, mask, inf)
forward_o_pt_norm_fn(enabled, o_pt, eps) ==
    IF enabled THEN forward_o_pt_norm_jit(o_pt, eps)
    ELSE forward_o_pt_norm_eager(o_pt, eps)

\* The output projection, an affine map of the concatenated features, kept
\* as a term.
linear_out(o_cat) == [linear_out |-> o_cat]

o_pt_local_global_frame(r, p) == p
\* invert_apply_jit of the query residue's frame on the attended points.
o_pt_local(r, p) == Rigid_invert_apply_frac(r, p)

\* The outputs of forward from the attention weights a: o, o_pt, its norm
\* and o_pair per residue and head, concatenated, and s_update.
forward_output(a, lin, pts, z, r, enabled) ==
    LET o == Fn([i \in Residues |-> Fn([h \in Heads |->
                FSum(Fn([j \in Residues |-> FMul(a[h][i][j], FInt(lin.v[j][h]))]))])])
        o_pt == Fn([i \in Residues |-> Fn([h \in Heads |->
                o_pt_local(r[i], Fn([c \in 1 .. 3 |->
                    FSum(Fn([j \in Residues |->
                        FMul(a[h][i][j], FInt(pts.v_pts[j][h][c]))]))]))])])
        o_pair == Fn([i \in Residues |-> Fn([h \in Heads |->
                FSum(Fn([j \in Residues |-> FMul(a[h][i][j], FInt(z[i][j]))]))])])
        o_cat == Fn([i \in Residues |->
                    [o |-> o[i], o_pt |-> o_pt[i],
                     o_pt_norm |-> Fn([h \in Heads |->
                        forward_o_pt_norm_fn(enabled, o_pt[i][h], Frac(1, IpaEpsInv))]),
                     o_pair |-> o_pair[i]]])
    IN  [o_cat |-> o_cat, s_update |-> Fn([i \in Residues |-> linear_out(o_cat[i])])]

(***************************************************************************)
(* The invariant point attention state machine                             *)
(***************************************************************************)
\* The rows of s, the frames and the pair representations a call is made
\* with; SLarge is the size of a large activation.
SLarge == 100
SRows == {<<0, 0>>, <<1, 1>>}
Frames == {Rigid_identity, Rigid(RotZ, <<1, 0, 0>>)}
GlobalTransforms == {Rigid(RotX, <<0, 1, 0>>), Rigid(RotId, <<0, 0, 2>>)}
ZInputs == {[i \in Residues |-> [j \in Residues |-> 0]],
            [i \in Residues |-> [j \in Residues |-> (i + j) % 2]]}
IpaInputs ==
    {[s |-> s, z |-> z, r |-> r, mask |-> mask, enabled |-> FALSE] :
        s \in [Residues -> SRows], z \in ZInputs, r \in [Residues -> Frames],
        mask \in [Residues -> {0, 1}]}

\* The inputs of call 2: those of call 1 with another answer of the
\* inductor, or with another s and r at one masked residue, or with one
\* rigid transform applied to every frame.
IpaVariants(in) ==
    {[in EXCEPT !.enabled = TRUE]}
    \cup UNION {{[in EXCEPT !.s[j] = p[1], !.r[j] = p[2]] :
                    p \in {q \in (SRows \cup {<<SLarge, 0>>}) \X Frames :
                              q[1] # in.s[j] /\ q[2] # in.r[j]}} :
                j \in {i \in Residues : in.mask[i] = 0}}
    \cup {[in EXCEPT !.r = [i \in Residues |-> Rigid_compose(g, in.r[i])]] :
            g \in GlobalTransforms}

Calls2 == {1, 2}

IIdle ==
    /\ iin = [c \in Calls2 |-> None]
    /\ ipc = [call |-> 0, stage |-> "idle"]
    /\ ilin = [c \in Calls2 |-> None]
    /\ iatt = [c \in Calls2 |-> None]
    /\ iout = [c \in Calls2 |-> None]

IInit ==
    /\ \E in \in IpaInputs : \E var \in IpaVariants(in) :
           /\ var # in
           /\ iin = [c \in Calls2 |-> IF c = 1 THEN Some(in) ELSE Some(var)]
    /\ ipc = [call |-> 1, stage |-> "linears"]
    /\ ilin = [c \in Calls2 |-> None]
    /\ iatt = [c \in Calls2 |-> None]
    /\ iout = [c \in Calls2 |-> None]

\* forward up to the points in the global frame.
IpaLinears ==
    /\ ipc.stage = "linears"
    /\ \E in \in {iin[ipc.call][1]} :
       \E lin \in {forward_linears_on_inputs_eager(in.s, in.z)} :
           ilin' = [ilin EXCEPT ![ipc.call] = Some([lin |-> lin, pts |-> forward_points(lin, in.r)])]
    /\ ipc' = [ipc EXCEPT !.stage = "attention"]
    /\ UNCHANGED <<iin, iatt, iout>> /\ UNCHANGED <<dvars, svars>>

\* The attention scores and weights.
IpaAttention ==
    /\ ipc.stage = "attention"
    /\ \E in \in {iin[ipc.call][1]} : \E l \in {ilin[ipc.call][1]} :
           iatt' = [iatt EXCEPT ![ipc.call] =
                      Some(forward_a_fn(in.enabled, forward_qk(l.lin), l.lin.b,
                                        l.pts.q_pts, l.pts.k_pts, in.mask, IpaInf))]
    /\ ipc' = [ipc EXCEPT !.stage = "output"]
    /\ UNCHANGED <<iin, ilin, iout>> /\ UNCHANGED <<dvars, svars>>

\* The output features and s_update; call 2 starts when call 1 has returned.
IpaOutput ==
    /\ ipc.stage = "output"
    /\ \E in \in {iin[ipc.call][1]} : \E l \in {ilin[ipc.call][1]} :
           iout' = [iout EXCEPT ![ipc.call] =
                      Some(forward_output(iatt[ipc.call][1], l.lin, l.pts, in.z, in.r,
                                          in.enabled))]
    /\ ipc' = IF ipc.call = 1 THEN [call |-> 2, stage |-> "linears"]
              ELSE [call |-> 2, stage |-> "done"]
    /\ UNCHANGED <<iin, ilin, iatt>> /\ UNCHANGED <<dvars, svars>>

INext == IpaLinears \/ IpaAttention \/ IpaOutput

DropoutInit == DInit /\ SIdle /\ IIdle
DropoutSpec == DropoutInit /\ [][DNext]_vars

Init == SInit /\ DIdle /\ IIdle
Spec == Init /\ [][Next]_vars

IpaInit == IInit /\ DIdle /\ SIdle
IpaSpec == IpaInit /\ [][INext]_vars

\* The calls that have a compiled implementation to select, under every
\* answer of the inductor: a dropout module's forward in a group with its
\* generators in lockstep, and an invariant point attention call followed
\* by the same call with the inductor enabled.
FusionInit ==
    \/ DInitFor({c \in Configs : ValidConfig(c) /\ c.sync /\ SingleCall(c)}) /\ SIdle /\ IIdle
    \/ IInit /\ iin[2][1].enabled /\ DIdle /\ SIdle
FusionSpec == FusionInit /\ [][DNext \/ INext]_vars

\* Every module, in place or not, called up to MaxCalls times.
InplaceInit ==
    DInitFor({c \in Configs : ValidConfig(c) /\ c.det = NoFusion /\ c.sync})
        /\ SIdle /\ IIdle
InplaceSpec == InplaceInit /\ [][DNext]_vars

\* Every call that can take a step eventually takes one, and every
\* collective that all workers have reached eventually completes.
FairSpec == Spec /\ WF_vars(Next)

(***************************************************************************)
(* Properties of a forward call                                            *)
(***************************************************************************)
Called(w) == dres[w] # None
Mask(w) == dres[w][1].mask
Out(w) == dres[w][1].out
XOf(w) == Shard(dx, dcfg, w)
YOf(w) == Shard(dy, dcfg, w)
AllCalled == dphase = "ready" /\ \A w \in DWorkers(dcfg) : Called(w)

\* 1/(1-p), for p < 1.
Scale(p) == p.den \div (p.den - p.num)

SharedAxes(share_dim) == {PyAxis(share_dim[k], 4) : k \in 1 .. Len(share_dim)}

\* Positions i and j differ at most in the indices of the given axes.
SameOff(i, j, axes) == \A a \in 1 .. 4 : a \in axes \/ i[a] = j[a]

\* C1: in inference mode, for every p in [0,1] and every share_dim, and in
\* training mode with p = 0, forward returns exactly add_output_to + x and
\* every mask entry is 1, whatever the generator produces.
C1_IdentityInInference ==
    \A w \in DWorkers(dcfg) :
        (Called(w) /\ (~dcfg.training \/ dself[1].p.num = 0)) =>
            /\ ~IsError(Out(w))
            /\ Out(w).shape = XOf(w).shape
            /\ \A i \in Idx(XOf(w).shape) :
                   /\ At(Mask(w), i) = 1
                   /\ Out(w).v[i] = YOf(w).v[i] + XOf(w).v[i]

C1_Witness ==
    \E w \in DWorkers(dcfg) :
        /\ Called(w) /\ ~dcfg.training
        /\ 0 < dself[1].p.num /\ dself[1].p.num < dself[1].p.den
        /\ \E i \in Idx(XOf(w).shape) : XOf(w).v[i] # 0 /\ Out(w).v[i] # YOf(w).v[i]

\* C2: in training mode with p = 1 every mask entry is 0, the contribution
\* x * mask is 0 at every position and forward returns add_output_to
\* unchanged, for every x and every share_dim.
C2_ZeroAtOne ==
    \A w \in DWorkers(dcfg) :
        (Called(w) /\ dcfg.training /\ dself[1].p.num = dself[1].p.den) =>
            /\ ~IsError(Out(w))
            /\ \A i \in Idx(Mask(w).shape) : Mask(w).v[i] = 0
            /\ \A i \in Idx(XOf(w).shape) :
                   /\ XOf(w).v[i] * At(Mask(w), i) = 0
                   /\ Out(w).v[i] = YOf(w).v[i]

C2_Witness ==
    \E w \in DWorkers(dcfg) :
        /\ Called(w) /\ dcfg.training /\ dself[1].p.num = dself[1].p.den
        /\ \E i \in Idx(XOf(w).shape) : XOf(w).v[i] # 0 /\ Out(w).v[i] = YOf(w).v[i]

\* C3: in training mode, for any p and any draw, the mask has length 1 along
\* every axis of share_dim and is broadcast along it: positions of x that
\* differ only in the index of a shared axis are all kept and scaled by
\* 1/(1-p), or all zeroed, together.
C3_MaskSharedAlongAxis ==
    \A w \in DWorkers(dcfg) :
        (Called(w) /\ dcfg.training) =>
            LET axes == SharedAxes(dself[1].share_dim)
                p == dself[1].p
            IN  /\ ~IsError(Out(w))
                /\ \A a \in axes : Mask(w).shape[a] = 1
                /\ \A i \in Idx(XOf(w).shape) :
                       \/ /\ p.num < p.den
                          /\ \A j \in Idx(XOf(w).shape) :
                                 SameOff(i, j, axes) =>
                                     /\ At(Mask(w), j) = Scale(p)
                                     /\ Out(w).v[j] = YOf(w).v[j] + XOf(w).v[j] * Scale(p)
                       \/ \A j \in Idx(XOf(w).shape) :
                              SameOff(i, j, axes) =>
                                  /\ At(Mask(w), j) = 0
                                  /\ Out(w).v[j] = YOf(w).v[j]

\* A row-wise module in training whose draw keeps one residue and zeroes
\* another, each for both rows of x.
C3_Witness ==
    \E w \in DWorkers(dcfg) :
        /\ Called(w) /\ dcfg.training /\ dcfg.cls = "DropoutRowwise"
        /\ XOf(w).shape[2] > 1
        /\ 0 < dself[1].p.num /\ dself[1].p.num < dself[1].p.den
        /\ \E i, j \in Idx(XOf(w).shape) :
               At(Mask(w), i) = Scale(dself[1].p) /\ At(Mask(w), j) = 0

\* The position in the full tensor of position i of worker w's shard.
GlobalIdx(i, w) ==
    IF dcfg.xaxis = None \/ dcfg.size = 1 THEN i
    ELSE SetAxis(i, PyAxis(dcfg.xaxis[1], 4),
                 i[PyAxis(dcfg.xaxis[1], 4)] + w * LocalShape[PyAxis(dcfg.xaxis[1], 4)])

\* The masks the non-sharded computation (no parallel group, the full x, no
\* dap_scattered_dim) can apply: the one its generator's stream gives when
\* that stream is known, any one otherwise.
NonShardedMasks ==
    LET self == dself[1]
        shape == MaskShape(GlobalShape(dcfg), self.share_dim, None, 1)
        streams == IF ~UsesRng(self.p, dcfg.training) THEN {[k \in 1 .. NumEl(shape) |-> 1]}
                   ELSE IF dcfg.sync /\ drng # None /\ Len(drng[1]) = NumEl(shape)
                   THEN {drng[1]}
                   ELSE Streams(shape)
    IN  {Dropout_mask(self, dcfg.training, GlobalShape(dcfg), None, s, 0, 1) : s \in streams}

\* The masks the workers applied are, together, mask m of the full tensor.
UnionIs(m) ==
    \A w \in DWorkers(dcfg) :
        \A i \in Idx(XOf(w).shape) : At(Mask(w), i) = At(m, GlobalIdx(i, w))

\* C4: on a sharded x, for every worker of the group, the mask combined with
\* the worker's shard is broadcast-compatible with it and the masks of the
\* workers are together the mask the non-sharded computation would apply to
\* the full tensor; also at the block's row-wise dropout call.  Stated for
\* the case that favours it: the generators of the group in lockstep.
C4_ShardedMaskIsGlobalMask ==
    (AllCalled /\ dcfg.size > 1 /\ dcfg.sync) =>
        /\ \A w \in DWorkers(dcfg) : ~IsError(Out(w))
        /\ \E m \in NonShardedMasks : UnionIs(m)

(***************************************************************************)
(* Properties of a stack call                                              *)
(***************************************************************************)
IsPrefix(a, b) == Len(a) <= Len(b) /\ \A i \in 1 .. Len(a) : a[i] = b[i]

\* The stages of block k, in order, with the mask each receives.
ExpectedBlockLog(w, k) ==
    LET row == dap_scatter(sin.msa_mask, 1, w, DapSize)
        col == dap_scatter(sin.msa_mask, 2, w, DapSize)
    IN  IF EnabledOf(w)
        THEN <<Event("block", k, Some(sin.msa_mask), Some(sin.pair_mask)),
               Event("scatter_mask", k, Some(row), None),
               Event("scatter_mask", k, Some(col), None),
               Event("row_att", k, Some(row), None),
               Event("dropout", k, None, None),
               Event("row_to_col", k, None, None),
               Event("col_att", k, Some(col), None),
               Event("core", k, Some(sin.msa_mask), Some(sin.pair_mask))>>
        ELSE <<Event("block", k, Some(sin.msa_mask), Some(sin.pair_mask)),
               Event("row_att", k, Some(sin.msa_mask), None),
               Event("dropout", k, None, None),
               Event("col_att", k, Some(sin.msa_mask), None),
               Event("core", k, Some(sin.msa_mask), Some(sin.pair_mask))>>

\* The calls worker w has issued inside block k.
BlockSection(w, k) ==
    LET RECURSIVE sel(_)
        sel(n) == IF n = 0 THEN <<>>
                  ELSE IF slog[w][n].blk = k THEN Append(sel(n - 1), slog[w][n])
                  ELSE sel(n - 1)
    IN  sel(Len(slog[w]))

BlocksOver(w) == pc[w] \in {"gather", "project", "done"}

\* C5: in every block forward call the stages happen in this order: with
\* distributed execution active msa_mask is sharded into a row-sharded copy
\* (dim 1) and a column-sharded copy (dim 2), row attention runs with the
\* row-sharded mask, its result is added to m through the row-wise dropout,
\* m is relayouted from row-sharded to column-sharded exactly once, column
\* attention runs with the column-sharded mask, and the core is called last
\* with the unsharded msa_mask and pair_mask; with it inactive the same
\* compute stages run in the same order with the full mask and no scatter
\* or relayout.
C5_BlockStageOrder ==
    \A w \in Workers :
        /\ pc[w] # "ShapeError"
        /\ \A k \in 1 .. MaxBlocks :
               /\ IsPrefix(BlockSection(w, k), ExpectedBlockLog(w, k))
               /\ (BlocksOver(w) /\ k <= NbOf(w)) =>
                      BlockSection(w, k) = ExpectedBlockLog(w, k)
        /\ pc[w] \in {"row_att", "dropout", "row_to_col"} =>
               /\ Layout(sm[w]) = "row"
               /\ stmp[w].mask_row = dap_scatter(sin.msa_mask, 1, w, DapSize)
               /\ stmp[w].mask_col = dap_scatter(sin.msa_mask, 2, w, DapSize)
        /\ pc[w] \in {"col_att", "core"} => Layout(sm[w]) = "col"

C5_Witness ==
    /\ \A w \in Workers : EnabledOf(w) /\ pc[w] = "core" /\ blk[w] = MaxBlocks
    /\ sin.msa_mask.v[<<1, NSeq, NRes, 1>>] = 0

\* The full run with distributed execution inactive: the sequence of the
\* [m, z] after the first 0, 1, ..., n blocks of the list, each block applied
\* to the output of the one before it with the stack's masks.
RECURSIVE RefUpTo(_)
RefUpTo(n) ==
    IF n = 0 THEN <<[m |-> sin.m, z |-> sin.z]>>
    ELSE LET r == RefUpTo(n - 1)
         IN  Append(r, EvoformerBlock_forward_local(r[n].m, r[n].z, sin.msa_mask,
                                                    sin.pair_mask, BlockParam(n)))

\* [m, z] after the first j blocks.
RefAfter(j) == RefUpTo(j)[j + 1]

BlockEntries(w) ==
    LET RECURSIVE sel(_)
        sel(n) == IF n = 0 THEN <<>>
                  ELSE IF slog[w][n].op = "block" THEN Append(sel(n - 1), slog[w][n])
                  ELSE sel(n - 1)
    IN  sel(Len(slog[w]))

\* The part of the full tensor t that worker w holds.
HeldPart(t, w) == IF EnabledOf(w) THEN dap_scatter(t, 1, w, DapSize) ELSE t

\* C6: the stack applies its num_blocks blocks exactly once each, in list
\* order, the (m, z) output of block i being the input of block i+1, and
\* every block receives the msa_mask and pair_mask passed to the stack, on
\* the direct and on the gradient-checkpointing path.
C6_BlocksInOrderSameMasks ==
    LET ref == RefUpTo(MaxBlocks)
    IN  \A w \in Workers :
        /\ pc[w] # "ShapeError"
        /\ LET entries == BlockEntries(w)
           IN  /\ Len(entries) <= NbOf(w)
               /\ \A k \in 1 .. Len(entries) :
                      entries[k] = Event("block", k, Some(sin.msa_mask), Some(sin.pair_mask))
               /\ BlocksOver(w) => Len(entries) = NbOf(w)
               /\ pc[w] = "block" => Len(entries) = blk[w] - 1
        /\ pc[w] = "block" =>
               /\ sm[w] = HeldPart(ref[blk[w]].m, w)
               /\ sz[w] = HeldPart(ref[blk[w]].z, w)
        /\ pc[w] \in {"project", "done"} =>
               /\ sm[w] = ref[NbOf(w) + 1].m
               /\ sz[w] = ref[NbOf(w) + 1].z

C6_Witness ==
    \E w \in Workers :
        /\ pc[w] = "done" /\ NbOf(w) = MaxBlocks /\ GcOf(w)
        /\ RefAfter(MaxBlocks).m # RefAfter(MaxBlocks - 1).m

ZRowShape == <<1, NRes \div DapSize, NRes, 1>>

\* C7: with distributed execution active the stack scatters m and z along
\* dim 1 before the first block and gathers them along dim 1 after the last
\* one, every block sees m sharded along the sequence axis at its entry, and
\* the caller receives the full m and z in the original order: the returned
\* (m, z, s) are those of the run with distributed execution inactive.
C7_DistributedEqualsLocal ==
    LET ref == RefUpTo(MaxBlocks)
    IN  \A w \in Workers :
        /\ (EnabledOf(w) /\ pc[w] \notin {"start", "AssertionError"}) =>
               /\ Len(slog[w]) >= 2
               /\ slog[w][1] = Event("scatter_m", 0, None, None)
               /\ slog[w][2] = Event("scatter_z", 0, None, None)
        /\ (EnabledOf(w) /\ pc[w] \in {"block", "row_att"}) =>
               /\ Layout(sm[w]) = "row"
               /\ sz[w].shape = ZRowShape
        /\ (EnabledOf(w) /\ pc[w] = "project") =>
               /\ slog[w][Len(slog[w]) - 1] = Event("gather_m", 0, None, None)
               /\ slog[w][Len(slog[w])] = Event("gather_z", 0, None, None)
        /\ pc[w] = "done" =>
               /\ sm[w] = ref[NbOf(w) + 1].m
               /\ sz[w] = ref[NbOf(w) + 1].z
               /\ sout[w] = Some(ProjectS(ref[NbOf(w) + 1].m))

C7_Witness ==
    /\ \A w \in Workers : EnabledOf(w) /\ pc[w] = "done" /\ NbOf(w) = MaxBlocks
    /\ sin.msa_mask.v[<<1, NSeq, NRes, 1>>] = 0
    /\ RefAfter(MaxBlocks).m # sin.m

\* The linear projection of sequence index g (1-based) of the full tensor m.
ProjectionOfRow(m, g) ==
    Linear([shape |-> <<m.shape[1], m.shape[3], m.shape[4]>>,
            v |-> [i \in (1 .. m.shape[1]) \X (1 .. m.shape[3]) \X (1 .. m.shape[4]) |->
                      m.v[<<i[1], g, i[2], i[3]>>]]])

\* C8: the s a worker returns is the linear projection of sequence index 0
\* of the final m (after all blocks and, under distributed execution, after
\* the gather): the global query sequence on every worker, of shape
\* [batch, N_res, c_s].
C8_SingleIsQueryRow ==
    LET ref == RefUpTo(MaxBlocks)
    IN  \A w \in Workers :
        /\ pc[w] = "done" =>
               /\ sout[w] = Some(ProjectionOfRow(ref[NbOf(w) + 1].m, 1))
               /\ sout[w][1].shape = <<1, NRes, 2>>
               /\ Layout(sm[w]) = "full"
               /\ slog[w][Len(slog[w])] = Event("project", 0, None, None)
        /\ pc[w] # "done" => sout[w] = None

\* A worker other than the first returns under distributed execution, and
\* the row 0 of the shard it held projects to something else.
C8_Witness ==
    \E w \in Workers :
        /\ w > 0 /\ EnabledOf(w) /\ pc[w] = "done"
        /\ sout[w] # Some(ProjectionOfRow(RefAfter(NbOf(w)).m, w * (NSeq \div DapSize) + 1))

\* The calls worker w issued, without their arguments.
Calls(w) == [i \in 1 .. Len(slog[w]) |-> <<slog[w][i].op, slog[w][i].blk>>]

\* C9: for identical inputs, forward with gradient_checkpointing = True and
\* with gradient_checkpointing = False return identical (m, z, s), having
\* issued the same scatters, block applications with the same masks, gathers
\* and projection.
C9_CheckpointedEqualsDirect ==
    \A w, v \in Workers :
        (GcOf(w) /\ ~GcOf(v) /\ NbOf(w) = NbOf(v) /\ EnabledOf(w) = EnabledOf(v)) =>
            /\ pc[w] # "ShapeError"
            /\ (pc[w] = "done" /\ pc[v] = "done") =>
                   /\ sm[w] = sm[v]
                   /\ sz[w] = sz[v]
                   /\ sout[w] = sout[v]
                   /\ Calls(w) = Calls(v)

C9_Witness ==
    \E w, v \in Workers :
        /\ GcOf(w) /\ ~GcOf(v) /\ EnabledOf(w) /\ EnabledOf(v)
        /\ pc[w] = "done" /\ pc[v] = "done" /\ NbOf(w) = MaxBlocks
        /\ sm[w] # sin.m

IsCollective(e) == e.op \in {"scatter_m", "scatter_z", "row_to_col", "gather_m", "gather_z"}

Collectives(w) == SelectSeq(slog[w], IsCollective)

\* scatter of m and z, one row_to_col per block, gather of m and z.
ExpectedCollectives(nb) ==
    <<Event("scatter_m", 0, None, None), Event("scatter_z", 0, None, None)>>
    \o [k \in 1 .. nb |-> Event("row_to_col", k, None, None)]
    \o <<Event("gather_m", 0, None, None), Event("gather_z", 0, None, None)>>

\* What decides the collectives a call issues.
CallSig(w) == [nb |-> NbOf(w), enabled |-> EnabledOf(w), asserts |-> GcOf(w) /\ ~GradOf(w)]

SameCalls ==
    \A w, v \in Workers : NbOf(w) = NbOf(v) /\ GcOf(w) = GcOf(v) /\ EnabledOf(w) = EnabledOf(v)

GradWhereCheckpointed == \A w \in Workers : GcOf(w) => GradOf(w)

AllDone == \A w \in Workers : pc[w] = "done"

Terminated == \A w \in Workers : pc[w] \in {"done", "AssertionError"}

\* Some worker of the group issues collectives that another does not.
Mismatch == \E w, v \in Workers : EnabledOf(w) /\ CallSig(w) # CallSig(v)

\* C10 as stated: with the same number of blocks, the same
\* gradient_checkpointing flag and the same distributed-enabled state in
\* every worker, no call blocks for ever: every call has returned (or
\* raised), or some call or collective can go on.
C10_SameCallsNeverBlock == SameCalls => (Terminated \/ ENABLED Next)

\* C10, amended: with the same number of blocks, the same
\* gradient_checkpointing flag, the same distributed-enabled state and, where
\* the flag is set, gradient computation enabled, every worker issues the
\* same sequence of collective calls and every call eventually returns; when
\* a worker issues collectives that another omits, no worker that issues
\* them ever returns, and none fails either.
C10_CollectivesJoined ==
    /\ (SameCalls /\ GradWhereCheckpointed) => <>AllDone
    /\ [](SameCalls /\ GradWhereCheckpointed =>
              \A w \in Workers :
                  /\ Collectives(w) = Collectives(0) \/ pc[w] # pc[0]
                  /\ IsPrefix(Collectives(w),
                              IF EnabledOf(w) THEN ExpectedCollectives(NbOf(w)) ELSE <<>>)
                  /\ pc[w] = "done" =>
                         Collectives(w) =
                             IF EnabledOf(w) THEN ExpectedCollectives(NbOf(w)) ELSE <<>>)
    /\ [](Mismatch =>
              \A w \in Workers :
                  (EnabledOf(w) /\ ~(GcOf(w) /\ ~GradOf(w))) =>
                      pc[w] \notin {"done", "project", "ShapeError"})

C10_Witness ==
    /\ SameCalls /\ GradWhereCheckpointed /\ AllDone
    /\ \A w \in Workers : EnabledOf(w)
    /\ Collectives(0) = ExpectedCollectives(MaxBlocks)

(***************************************************************************)
(* Claims: invariant point attention                                       *)
(***************************************************************************)
In(c) == iin[c][1]
Att(c) == iatt[c][1]
SUpdate(c) == iout[c][1].s_update
Attended(c) == iatt[c] # None
Returned(c) == iout[c] # None
Valid(c) == {i \in Residues : In(c).mask[i] = 1}
Masked(c) == {i \in Residues : In(c).mask[i] = 0}
\* Calls 1 and 2 have the same mask, z and inductor answer, and the same s
\* and r at every valid residue.
AgreeOnValid ==
    /\ In(1).mask = In(2).mask
    /\ In(1).z = In(2).z
    /\ In(1).enabled = In(2).enabled
    /\ \A i \in Valid(1) : In(1).s[i] = In(2).s[i] /\ In(1).r[i] = In(2).r[i]

\* C11: for every valid query residue i and every masked residue j the
\* attention weight a[i, j] is zero for every head, and two calls that agree
\* on the mask and on all inputs of the valid residues but differ in s and r
\* at a masked residue return the same s_update at every valid row.
C11_MaskedResiduesDoNotInfluenceValid ==
    /\ \A c \in Calls2 : Attended(c) =>
           \A h \in Heads : \A i \in Valid(c) : \A j \in Masked(c) :
               Att(c)[h][i][j] = FInt(0)
    /\ (Returned(1) /\ Returned(2) /\ AgreeOnValid) =>
           \A i \in Valid(1) : SUpdate(1)[i] = SUpdate(2)[i]

Lin(c) == ilin[c][1].lin
Pts(c) == ilin[c][1].pts
\* The logits call c takes the softmax of.
Logits(c) ==
    forward_a_logits(forward_qk(Lin(c)), Lin(c).b, Pts(c).q_pts, Pts(c).k_pts,
                     In(c).mask, IpaInf)
\* Call 2 is call 1 with one rigid transform g applied to every frame and to
\* no other input.
RigidVariant ==
    \E g \in GlobalTransforms :
        In(2) = [In(1) EXCEPT !.r = [i \in Residues |-> Rigid_compose(g, In(1).r[i])]]

\* C12: IPA(s, z, g o r, mask) equals IPA(s, z, r, mask) for every rigid
\* transform g applied to all frames and to no other input: the squared
\* distances of query and key points, hence the logits and the attention
\* weights, and every component of the concatenated output and s_update are
\* unchanged.
C12_InvariantUnderGlobalRigid ==
    RigidVariant =>
        /\ (Attended(1) /\ Attended(2)) =>
               /\ \A h \in Heads : \A i, j \in Residues :
                      pt_att(Pts(1).q_pts, Pts(1).k_pts, h, i, j)
                          = pt_att(Pts(2).q_pts, Pts(2).k_pts, h, i, j)
               /\ Logits(1) = Logits(2)
               /\ Att(1) = Att(2)
        /\ (Returned(1) /\ Returned(2)) => iout[1] = iout[2]

\* Both calls have returned, g moved every global-frame point, the residues
\* do not all have the same frame and some value point is attended by a
\* residue other than its own.
C12_Witness ==
    /\ RigidVariant /\ Returned(1) /\ Returned(2)
    /\ \A i \in Residues : \A h \in Heads : Pts(1).v_pts[i][h] # Pts(2).v_pts[i][h]
    /\ \E i, j \in Residues : In(1).r[i] # In(1).r[j]
    /\ \E h \in Heads : \E i, j \in Residues : i # j /\ Att(2)[h][i][j] # FInt(0)

\* Call c has identity frames for all residues, an all-ones mask and an
\* all-zero pair representation.
IdentityCase(c) ==
    /\ \A i \in Residues : In(c).r[i] = Rigid_identity /\ In(c).mask[i] = 1
    /\ \A i, j \in Residues : In(c).z[i][j] = 0
\* The squared distance of query point i and key point j in the residues'
\* local frames, as the point projections of s give them.
LocalPtAtt(c, h, i, j) ==
    point_weight(h) * SqNorm(VSub(linear_q_points(In(c).s[i], h),
                                  linear_k_points(In(c).s[j], h)))
ScalarAndBias(c, h, i, j) ==
    linear_q(In(c).s[i], h) * linear_k(In(c).s[j], h) + linear_b(0, h)

\* C13 as stated: with identity frames, an all-ones mask and an all-zero z
\* the point-distance term of the logits is zero for every (query, key,
\* head), and the attention weights are the softmax of the scalar dot
\* product plus the pair bias alone.
C13_PointTermVanishes ==
    \A c \in Calls2 : (IdentityCase(c) /\ Attended(c)) =>
        \A h \in Heads : \A i \in Residues :
            /\ \A j \in Residues : pt_att(Pts(c).q_pts, Pts(c).k_pts, h, i, j) = 0
            /\ Att(c)[h][i] = softmax([j \in Residues |-> ScalarAndBias(c, h, i, j)])

\* C13, amended: with identity frames, an all-ones mask and an all-zero z
\* the mask term of the logits is zero and the point-distance term is the
\* weighted squared distance of the projected query and key points in their
\* local coordinates, zero exactly where the two points coincide; the
\* logits are the scalar dot product plus the pair bias (the bias of the
\* pair projection) minus that term, and the attention weights are their
\* softmax.
C13_PointTermIsLocalDistance ==
    \A c \in Calls2 : (IdentityCase(c) /\ Attended(c)) =>
        \A h \in Heads : \A i \in Residues :
            /\ \A j \in Residues :
                /\ square_mask(In(c).mask, IpaInf, i, j) = 0
                /\ pt_att(Pts(c).q_pts, Pts(c).k_pts, h, i, j) = LocalPtAtt(c, h, i, j)
                /\ (LocalPtAtt(c, h, i, j) = 0)
                       <=> (Lin(c).q_pts[i][h] = Lin(c).k_pts[j][h])
            /\ Att(c)[h][i] = softmax([j \in Residues |->
                                ScalarAndBias(c, h, i, j) - LocalPtAtt(c, h, i, j)])

\* An identity-frame, all-ones-mask, zero-z call has computed its weights;
\* one pair of query and key points coincides, another does not, and the
\* weights differ from the softmax of the scalar and bias terms alone.
C13_Witness ==
    /\ IdentityCase(1) /\ Attended(1)
    /\ \E h \in Heads : \E i, j \in Residues : LocalPtAtt(1, h, i, j) = 0
    /\ \E h \in Heads : \E i, j \in Residues : LocalPtAtt(1, h, i, j) # 0
    /\ \E h \in Heads : \E i \in Residues :
           Att(1)[h][i] # softmax([j \in Residues |-> ScalarAndBias(1, h, i, j)])

(***************************************************************************)
(* Claims: the compiled implementations                                    *)
(***************************************************************************)
\* Call 2 is call 1 with the inductor enabled and the same inputs.
DetectVariant == In(2) = [In(1) EXCEPT !.enabled = TRUE]

InUnitInterval(p) == p.num >= 0 /\ p.den - p.num >= 0

\* C15: constructing Dropout, DropoutRowwise or DropoutColumnwise with p
\* outside [0, 1] fails at construction: no module is produced and no
\* forward call is made; for every p in [0, 1], both endpoints included,
\* construction succeeds and the stored p is the argument.
C15_ProbabilityCheckedAtConstruction ==
    dphase \in {"ready", "failed"} =>
        IF InUnitInterval(dcfg.p)
        THEN dphase = "ready" /\ dself # None /\ dself[1].p = dcfg.p
        ELSE /\ dphase = "failed" /\ dself = None
             /\ \A w \in DWorkers(dcfg) : dres[w] = None

\* The constructor of a DropoutRowwise has failed on p = 3/2.
C15_Witness ==
    /\ dphase = "failed" /\ dself = None
    /\ dcfg.cls = "DropoutRowwise" /\ dcfg.p = Prob(3, 2)

\* Worker w's call has done nothing yet: no scatter, block, gather or
\* projection, and m and z are the arguments.
NothingDone(w) ==
    /\ slog[w] = <<>> /\ blk[w] = 0 /\ sout[w] = None
    /\ sm[w] = sin.m /\ sz[w] = sin.z

\* C16: forward with gradient_checkpointing = True fails with an assertion
\* error when gradient computation is disabled, before any scatter, block,
\* gather or projection (no collective is issued and no block runs); with
\* gradient_checkpointing = False the call proceeds whether or not gradient
\* computation is enabled.
C16_AssertionBeforeAnyWork ==
    \A w \in Workers :
        /\ (GcOf(w) /\ ~GradOf(w)) =>
               pc[w] \in {"start", "AssertionError"} /\ NothingDone(w)
        /\ pc[w] = "AssertionError" => GcOf(w) /\ ~GradOf(w)
        /\ ~GcOf(w) => pc[w] # "AssertionError" /\ (pc[w] # "start" => blk[w] >= 1)

\* One worker's checkpointed call has failed the assertion with nothing
\* done, and another's non-checkpointed call has returned with gradient
\* computation disabled.
C16_Witness ==
    \E w, v \in Workers :
        /\ pc[w] = "AssertionError" /\ NothingDone(w)
        /\ ~GcOf(v) /\ ~GradOf(v) /\ pc[v] = "done" /\ sout[v] # None

====
